---- MODULE Spec2Model ----
(***************************************************************************)
(* Model of stat.py: the salmon run statistics extractor.                  *)
(*                                                                         *)
(* The text level (HTML, regular expressions, split) is modelled by its    *)
(* result: a document is the script block already cut into group           *)
(* fragments, a group fragment carries the outcome of the name and data    *)
(* patterns, and a point fragment carries the outcome of the Date.UTC      *)
(* pattern.  Digit strings are sequences of digits, so that the string     *)
(* key of a year and its integer value stay different things.              *)
(***************************************************************************)
EXTENDS Integers, Sequences, FiniteSets, TLC

VARIABLES pc, river, document, g, statistics, tracebacks, error,
          wr, wy, files, warnings, events

vars == <<pc, river, document, g, statistics, tracebacks, error,
          wr, wy, files, warnings, events>>

----------------------------------------------------------------------------
(* Bounds of the model *)

NRivers == 3

MaxGroups == 2

MaxPoints == 3

----------------------------------------------------------------------------
(* Program constants *)

RIVERS == <<"byskealven", "kalixalven", "linaalven", "pitealven-fallfors",
            "pitealven-sikfors", "ricklean", "ranealven", "tornealven",
            "aby-alv", "angesan">>

\* Largest value the C int of datetime.date accepts.
CIntMax == 2147483647

MINYEAR == 1

MAXYEAR == 9999

----------------------------------------------------------------------------
(* Digit strings *)

RECURSIVE int(_)
\* int(year): the integer value of a digit string.
int(s) == IF Len(s) = 0 THEN 0
          ELSE 10 * int(SubSeq(s, 1, Len(s) - 1)) + s[Len(s)]

RECURSIVE str(_)
\* str(n): the decimal form of a natural number.
str(n) == IF n < 10 THEN <<n>> ELSE str(n \div 10) \o <<n % 10>>

----------------------------------------------------------------------------
(* datetime.date *)

IsLeap(y) == (y % 4 = 0) /\ ((y % 100 # 0) \/ (y % 400 = 0))

DaysInMonth(y, m) ==
    IF m = 2 THEN (IF IsLeap(y) THEN 29 ELSE 28)
    ELSE IF m \in {4, 6, 9, 11} THEN 30 ELSE 31

\* Outcome of datetime.date(y, M + 1, d) for the zero-based month M.
\* M + 1 is a Python integer of any size: it exceeds the C int range
\* exactly when M >= CIntMax.
date(y, M, d) ==
    IF (y > CIntMax) \/ (M > CIntMax - 1) \/ (d > CIntMax)
    THEN [exc |-> "OverflowError", value |-> <<>>]
    ELSE IF /\ y >= MINYEAR /\ y <= MAXYEAR
            /\ M + 1 >= 1 /\ M + 1 <= 12
            /\ d >= 1 /\ d <= DaysInMonth(y, M + 1)
         THEN [exc |-> "", value |-> <<y, M + 1, d>>]
         ELSE [exc |-> "ValueError", value |-> <<>>]

----------------------------------------------------------------------------
(* Inputs *)

\* A point fragment: the outcome of the Date.UTC pattern on it.
Pt(Y, M, D, c) == [match |-> TRUE, Y |-> Y, M |-> M, D |-> D, count |-> c]

NoMatch == [match |-> FALSE, Y |-> 0, M |-> 0, D |-> 0, count |-> 0]

Elements == { NoMatch,
              Pt(2012, 0, 15, 42),
              Pt(2021, 0, 16, 7),
              Pt(2021, 1, 29, 3),
              Pt(2021, 1, 30, 5),
              Pt(2021, 12, 1, 9),
              Pt(2021, CIntMax, 1, 8) }

\* The empty digit string stands for "the name pattern does not match".
None == <<>>

YearStrings == { <<2, 0, 2, 1>>, <<0, 2, 0, 2, 1>>, <<2, 0, 2, 0>>, <<0>> }

SeqUpTo(S, lo, hi) == UNION { [1..n -> S] : n \in lo..hi }

Fragment(name, elements) ==
    [name |-> name, hasData |-> TRUE, elements |-> elements]

NoData(name) == [name |-> name, hasData |-> FALSE, elements |-> <<>>]

Doc(groups) == [hasScript |-> TRUE, hasSeries |-> TRUE, groups |-> groups]

NoScript == [hasScript |-> FALSE, hasSeries |-> FALSE, groups |-> <<>>]

NoSeries == [hasScript |-> TRUE, hasSeries |-> FALSE, groups |-> <<>>]

\* One group with many points.
ParseDocs ==
    { Doc(<<Fragment(y, es)>>) :
        y \in YearStrings, es \in SeqUpTo(Elements, 1, MaxPoints) }

GroupElements == { <<NoMatch>>,
                   <<Pt(2012, 0, 15, 42)>>,
                   <<Pt(2021, 1, 30, 5)>>,
                   <<Pt(2021, 0, 16, 7), Pt(2012, 0, 15, 42)>>,
                   <<Pt(2021, CIntMax, 1, 8)>> }

GroupNames == { None, <<2, 0, 2, 1>>, <<0, 2, 0, 2, 1>>, <<2, 0, 2, 0>> }

GroupFragments ==
    { Fragment(n, es) : n \in GroupNames, es \in GroupElements }
      \cup { NoData(n) : n \in GroupNames }

\* Many groups with few points.
GroupDocs == { Doc(gs) : gs \in SeqUpTo(GroupFragments, 1, MaxGroups) }

ExtractDocs == ParseDocs \cup GroupDocs \cup {NoScript, NoSeries}

PipelineDocs ==
    { NoScript, NoSeries,
      Doc(<<NoData(None)>>),
      Doc(<<Fragment(<<2, 0, 2, 1>>, <<Pt(2021, 0, 16, 7)>>)>>),
      Doc(<<NoData(<<0, 2, 0, 2, 1>>)>>),
      Doc(<<Fragment(<<2, 0, 2, 1>>, <<Pt(2021, 1, 30, 5)>>),
            Fragment(<<2, 0, 2, 0>>, <<Pt(2012, 1, 29, 3)>>)>>),
      Doc(<<Fragment(<<2, 0, 2, 1>>, <<Pt(2021, CIntMax, 1, 8)>>)>>) }

----------------------------------------------------------------------------
(* get_salmon_statistics: the nested parsers *)

\* parse_year: the digits of the first name:'<digits>', match, or None.
parse_year(string) == string.name

\* The body of the loop over raw_elements, with the count appended even
\* when the date is rejected.
parse_element_count_first(acc, element, year) ==
    IF acc.error # "" \/ ~element.match THEN acc
    ELSE LET d == date(int(year), element.M, element.D)
         IN  IF d.exc = ""
             THEN [acc EXCEPT !.dates = Append(@, d.value),
                              !.counts = Append(@, element.count)]
             ELSE IF d.exc = "ValueError"
             THEN [acc EXCEPT !.counts = Append(@, element.count),
                              !.tracebacks = @ + 1]
             ELSE [acc EXCEPT !.error = d.exc]

\* The body of the loop over raw_elements, with the month left zero-based.
parse_element_no_shift(acc, element, year) ==
    IF acc.error # "" \/ ~element.match THEN acc
    ELSE LET d == date(int(year), element.M - 1, element.D)
         IN  IF d.exc = ""
             THEN [acc EXCEPT !.dates = Append(@, d.value),
                              !.counts = Append(@, element.count)]
             ELSE IF d.exc = "ValueError"
             THEN [acc EXCEPT !.tracebacks = @ + 1]
             ELSE [acc EXCEPT !.error = d.exc]

\* The body of the loop over raw_elements (one point fragment).  The date
\* is built from the year of the group, the month shifted by one, and the
\* day; the year literal of Date.UTC is matched but not used.  A ValueError
\* is caught and traced; any other exception leaves parse_data.
parse_element(acc, element, year) ==
    IF acc.error # "" \/ ~element.match THEN acc
    ELSE LET d == date(int(year), element.M, element.D)
         IN  IF d.exc = ""
             THEN [acc EXCEPT !.dates = Append(@, d.value),
                              !.counts = Append(@, element.count)]
             ELSE IF d.exc = "ValueError"
             THEN [acc EXCEPT !.tracebacks = @ + 1]
             ELSE [acc EXCEPT !.error = d.exc]

RECURSIVE parse_elements(_, _, _, _)
parse_elements(acc, raw_elements, i, year) ==
    IF i > Len(raw_elements) THEN acc
    ELSE parse_elements(parse_element(acc, raw_elements[i], year),
                        raw_elements, i + 1, year)

\* parse_data: the series of one group, the number of traces printed and
\* the exception that left it, if any.
parse_data(string, year) ==
    LET empty == [dates |-> <<>>, counts |-> <<>>, tracebacks |-> 0,
                  error |-> ""]
    IN  IF string.hasData
        THEN parse_elements(empty, string.elements, 1, year)
        ELSE empty

Data(acc) == [dates |-> acc.dates, counts |-> acc.counts]

----------------------------------------------------------------------------
(* Python dict: keys in insertion order *)

Keys(d) == { d[i].key : i \in 1..Len(d) }

Lookup(d, k) == (CHOOSE i \in 1..Len(d) : d[i].key = k)

\* d[k] = v where an existing key keeps its first value.
SetItemKeepFirst(d, k, v) ==
    IF k \in Keys(d) THEN d ELSE Append(d, [key |-> k, data |-> v])

\* d[k] = v: replaces the value of an existing key in place, else appends.
SetItem(d, k, v) ==
    IF k \in Keys(d)
    THEN [d EXCEPT ![Lookup(d, k)] = [key |-> k, data |-> v]]
    ELSE Append(d, [key |-> k, data |-> v])

----------------------------------------------------------------------------
(* The file system and the output stream *)

\* river + year + '.txt': the year is the key string.  No river name ends
\* with a digit, so the pair determines the name and conversely.
FileNameOfInt(r, year) == <<RIVERS[r], str(int(year))>>

FileName(r, year) == <<RIVERS[r], year>>

\* list_to_string: a line is the sequence of its comma separated fields.
list_to_string(lst) == lst

\* store_salmon_statistics: creates or overwrites the file with two lines.
store_salmon_statistics(fs, data, file_name) ==
    [p \in (DOMAIN fs) \cup {file_name} |->
        IF p = file_name
        THEN <<list_to_string(data.dates), list_to_string(data.counts)>>
        ELSE fs[p]]

NoFiles == [p \in {} |-> <<>>]

Ev(op, r) == [op |-> op, river |-> r]

----------------------------------------------------------------------------
(* Initial states *)

Init ==
    /\ pc = "fetch"
    /\ river = 1
    /\ document = NoScript
    /\ g = 1
    /\ statistics = <<>>
    /\ tracebacks = 0
    /\ error = ""
    /\ wr = 1
    /\ wy = 1
    /\ files = NoFiles
    /\ warnings = <<>>
    /\ events = <<>>

\* The last river has just been fetched; the rivers before it had no
\* named series.
InitExtract ==
    /\ pc = "find"
    /\ river = NRivers
    /\ document \in ExtractDocs
    /\ g = 1
    /\ statistics = [r \in 1..(NRivers - 1) |-> <<>>]
    /\ tracebacks = 0
    /\ error = ""
    /\ wr = 1
    /\ wy = 1
    /\ files = NoFiles
    /\ warnings = <<>>
    /\ events = [r \in 1..NRivers |-> Ev("fetch", r)]

----------------------------------------------------------------------------
(* get_salmon_statistics: the loop over RIVERS *)

Raise(exc) ==
    /\ pc' = "error"
    /\ error' = exc

\* requests.get(URL + river) answers.
Fetch ==
    /\ pc = "fetch"
    /\ \E doc \in PipelineDocs : document' = doc
    /\ events' = Append(events, Ev("fetch", river))
    /\ pc' = "find"
    /\ UNCHANGED <<river, g, statistics, tracebacks, error, wr, wy, files,
                   warnings>>

\* requests.get(URL + river) raises.
FetchFail ==
    /\ pc = "fetch"
    /\ Raise("ConnectionError")
    /\ UNCHANGED <<river, document, g, statistics, tracebacks, wr, wy,
                   files, warnings, events>>

\* soup.find("script", ...).string: None has no attribute string.
FindScript ==
    /\ pc = "find"
    /\ IF document.hasScript
       THEN pc' = "search" /\ error' = error
       ELSE Raise("AttributeError")
    /\ UNCHANGED <<river, document, g, statistics, tracebacks, wr, wy,
                   files, warnings, events>>

\* A missing series:[...] recorded as a river without series.
SearchSeriesLenient ==
    /\ pc = "search"
    /\ pc' = "groups"
    /\ error' = error
    /\ g' = 1
    /\ statistics' = Append(statistics, <<>>)
    /\ UNCHANGED <<river, document, tracebacks, wr, wy, files, warnings,
                   events>>

\* re.search('series:\[(.*)\]', ...).group(1), the split into raw_groups
\* and statistics[river] = {}.
SearchSeries ==
    /\ pc = "search"
    /\ IF document.hasSeries
       THEN /\ pc' = "groups"
            /\ error' = error
            /\ g' = 1
            /\ statistics' = Append(statistics, <<>>)
       ELSE /\ Raise("AttributeError")
            /\ UNCHANGED <<g, statistics>>
    /\ UNCHANGED <<river, document, tracebacks, wr, wy, files, warnings,
                   events>>

\* One round of the loop over raw_groups where a group without a data
\* array gets no entry.
ParseGroupSkipNoData ==
    /\ pc = "groups"
    /\ g <= Len(document.groups)
    /\ LET group == document.groups[g]
           year == parse_year(group)
           r == parse_data(group, year)
       IN  IF year # None /\ group.hasData
           THEN /\ tracebacks' = tracebacks + r.tracebacks
                /\ IF r.error # ""
                   THEN Raise(r.error) /\ UNCHANGED <<g, statistics>>
                   ELSE /\ statistics' = [statistics EXCEPT ![river] =
                                            SetItem(@, year, Data(r))]
                        /\ g' = g + 1
                        /\ UNCHANGED <<pc, error>>
           ELSE /\ g' = g + 1
                /\ UNCHANGED <<pc, error, statistics, tracebacks>>
    /\ UNCHANGED <<river, document, wr, wy, files, warnings, events>>

\* One round of the loop over raw_groups.
ParseGroup ==
    /\ pc = "groups"
    /\ g <= Len(document.groups)
    /\ LET group == document.groups[g]
           year == parse_year(group)
           r == parse_data(group, year)
       IN  IF year # None
           THEN /\ tracebacks' = tracebacks + r.tracebacks
                /\ IF r.error # ""
                   THEN Raise(r.error) /\ UNCHANGED <<g, statistics>>
                   ELSE /\ statistics' = [statistics EXCEPT ![river] =
                                            SetItem(@, year, Data(r))]
                        /\ g' = g + 1
                        /\ UNCHANGED <<pc, error>>
           ELSE /\ g' = g + 1
                /\ UNCHANGED <<pc, error, statistics, tracebacks>>
    /\ UNCHANGED <<river, document, wr, wy, files, warnings, events>>

RECURSIVE StoreAll(_, _, _, _)
\* The write-or-warn of every series of river r from position i on:
\* the files, warnings and events after it.
StoreAll(out, r, years, i) ==
    IF i > Len(years) THEN out
    ELSE LET year == years[i].key
             data == years[i].data
             full == Len(data.dates) > 0 /\ Len(data.counts) > 0
         IN  StoreAll(
               [files |-> IF full
                          THEN store_salmon_statistics(
                                   out.files, data, FileName(r, year))
                          ELSE out.files,
                warnings |-> IF full THEN out.warnings
                             ELSE Append(out.warnings, <<RIVERS[r], year>>),
                events |-> Append(out.events,
                                  Ev(IF full THEN "store" ELSE "warn", r))],
               r, years, i + 1)

\* The end of one round of the loop over RIVERS, with the series of the
\* river written before the next river is fetched.
NextRiverWriteFirst ==
    /\ pc = "groups"
    /\ g > Len(document.groups)
    /\ river < NRivers
    /\ river' = river + 1
    /\ pc' = "fetch"
    /\ LET out == StoreAll([files |-> files, warnings |-> warnings,
                            events |-> events],
                           river, statistics[river], 1)
       IN  /\ files' = out.files
           /\ warnings' = out.warnings
           /\ events' = out.events
    /\ UNCHANGED <<document, g, statistics, tracebacks, error, wr, wy>>

\* The end of one round of the loop over RIVERS: on to the next river.
NextRiver ==
    /\ pc = "groups"
    /\ g > Len(document.groups)
    /\ river < NRivers
    /\ river' = river + 1
    /\ pc' = "fetch"
    /\ UNCHANGED <<document, g, statistics, tracebacks, error, wr, wy,
                   files, warnings, events>>

\* return statistics, after the last river.
Return ==
    /\ pc = "groups"
    /\ g > Len(document.groups)
    /\ river = NRivers
    /\ pc' = "main"
    /\ wr' = 1
    /\ wy' = 1
    /\ UNCHANGED <<river, document, g, statistics, tracebacks, error,
                   files, warnings, events>>

----------------------------------------------------------------------------
(* main: the loops over statistics.items() and years.items() *)

\* One round of the inner loop with a file written for every series.
StoreOrWarnAlways ==
    /\ pc = "main"
    /\ wy <= Len(statistics[wr])
    /\ LET year == statistics[wr][wy].key
           data == statistics[wr][wy].data
       IN  /\ files' = store_salmon_statistics(
                           files, data, FileName(wr, year))
           /\ events' = Append(events, Ev("store", wr))
           /\ UNCHANGED warnings
    /\ wy' = wy + 1
    /\ UNCHANGED <<pc, river, document, g, statistics, tracebacks, error,
                   wr>>

\* One round of the inner loop: the series is stored, or a warning is
\* printed when it has no dates or no counts.
StoreOrWarn ==
    /\ pc = "main"
    /\ wy <= Len(statistics[wr])
    /\ LET year == statistics[wr][wy].key
           data == statistics[wr][wy].data
       IN  IF Len(data.dates) > 0 /\ Len(data.counts) > 0
           THEN /\ files' = store_salmon_statistics(
                                files, data, FileName(wr, year))
                /\ events' = Append(events, Ev("store", wr))
                /\ UNCHANGED warnings
           ELSE /\ warnings' = Append(warnings, <<RIVERS[wr], year>>)
                /\ events' = Append(events, Ev("warn", wr))
                /\ UNCHANGED files
    /\ wy' = wy + 1
    /\ UNCHANGED <<pc, river, document, g, statistics, tracebacks, error,
                   wr>>

\* The end of one round of the outer loop: the next river, or the end.
NextItems ==
    /\ pc = "main"
    /\ wy > Len(statistics[wr])
    /\ IF wr < Len(statistics)
       THEN wr' = wr + 1 /\ wy' = 1 /\ pc' = pc
       ELSE pc' = "done" /\ UNCHANGED <<wr, wy>>
    /\ UNCHANGED <<river, document, g, statistics, tracebacks, error,
                   files, warnings, events>>

----------------------------------------------------------------------------
(* Specifications *)

Next ==
    \/ Fetch
    \/ FetchFail
    \/ FindScript
    \/ SearchSeries
    \/ ParseGroup
    \/ NextRiver
    \/ Return
    \/ StoreOrWarn
    \/ NextItems

Spec == Init /\ [][Next]_vars

NextExtract ==
    \/ FindScript
    \/ SearchSeries
    \/ ParseGroup
    \/ Return
    \/ StoreOrWarn
    \/ NextItems

SpecExtract == InitExtract /\ [][NextExtract]_vars

----------------------------------------------------------------------------
(* Vocabulary of the properties *)

\* get_salmon_statistics has returned its mapping.
Returned == pc \in {"main", "done"}

\* The mapping of the river being extracted (the last one once returned).
Years == IF Len(statistics) >= river THEN statistics[river] ELSE <<>>

\* The position of the last group fragment named k.
LastNamed(k) ==
    CHOOSE i \in 1..Len(document.groups) :
        /\ document.groups[i].name = k
        /\ \A j \in (i + 1)..Len(document.groups) :
               document.groups[j].name # k

ValidDate(y, m, d) ==
    /\ y \in MINYEAR..MAXYEAR
    /\ m \in 1..12
    /\ d \in 1..DaysInMonth(y, m)

\* The point fragment matches and (y, M + 1, D) is a calendar date.
ValidPoint(y, e) == e.match /\ e.M < 12 /\ ValidDate(y, e.M + 1, e.D)

IsMatch(e) == e.match

\* The matched points of a fragment that give a calendar date in year y.
ValidPoints(y, string) ==
    LET Keep(e) == ValidPoint(y, e)
    IN  SelectSeq(string.elements, Keep)

IsWrite(e) == e.op \in {"store", "warn"}

Count(s, x) == Cardinality({ i \in 1..Len(s) : s[i] = x })

Empty(data) == Len(data.dates) = 0 \/ Len(data.counts) = 0

\* main has done the write-or-warn of the i-th series of river r.
Processed(r, i) ==
    \/ pc = "done"
    \/ pc = "main" /\ (r < wr \/ (r = wr /\ i < wy))

----------------------------------------------------------------------------
(* C1 *)

\* C1: in every series of the mapping the dates and the counts have the
\* same length, and the date and the count at one index come from one
\* point fragment of a group of that year, also when a point was rejected
\* as a calendar date.
C1_DatesAndCountsAligned ==
    /\ \A r \in 1..Len(statistics) : \A i \in 1..Len(statistics[r]) :
           Len(statistics[r][i].data.dates) = Len(statistics[r][i].data.counts)
    /\ \A i \in 1..Len(Years) :
         LET k == Years[i].key
             data == Years[i].data
         IN  \A j \in 1..Len(data.dates) :
               j <= Len(data.counts) /\
               \E n \in 1..Len(document.groups) :
                 /\ document.groups[n].name = k
                 /\ \E m \in 1..Len(document.groups[n].elements) :
                      LET e == document.groups[n].elements[m]
                      IN  /\ e.match
                          /\ e.count = data.counts[j]
                          /\ e.M = data.dates[j][2] - 1
                          /\ e.D = data.dates[j][3]

\* A returned series of two points from a fragment where a point was
\* rejected with a trace.
C1_Witness ==
    /\ Returned
    /\ tracebacks > 0
    /\ \E i \in 1..Len(Years) : Len(Years[i].data.dates) >= 2

----------------------------------------------------------------------------
(* C2 *)

\* C2 as stated: every matched point whose (Y, M + 1, D), with Y the year
\* literal of Date.UTC, is a calendar date is in the series as the date
\* (Y, M + 1, D) with its count.
C2_DateFromUtcYear ==
    Returned =>
      \A i \in 1..Len(Years) :
        LET data == Years[i].data
            string == document.groups[LastNamed(Years[i].key)]
        IN  \A m \in 1..Len(string.elements) :
              LET e == string.elements[m]
              IN  ValidPoint(e.Y, e) =>
                    \E j \in 1..Len(data.dates) :
                       /\ data.dates[j] = <<e.Y, e.M + 1, e.D>>
                       /\ data.counts[j] = e.count

\* C2 amended: the series of a year is, in encounter order, the dates
\* (int(year), M + 1, D) and the counts of the matched points for which
\* that triple is a calendar date, year being the name of the fragment.
C2_DateFromGroupYear ==
    Returned =>
      \A i \in 1..Len(Years) :
        LET k == Years[i].key
            data == Years[i].data
            ps == ValidPoints(int(k), document.groups[LastNamed(k)])
        IN  /\ data.dates = [j \in 1..Len(ps) |->
                               <<int(k), ps[j].M + 1, ps[j].D>>]
            /\ data.counts = [j \in 1..Len(ps) |-> ps[j].count]

\* A returned series of two points, one of them with a Date.UTC year that
\* differs from the year of the fragment.
C2_Witness ==
    /\ Returned
    /\ \E i \in 1..Len(Years) :
         LET k == Years[i].key
             ps == ValidPoints(int(k), document.groups[LastNamed(k)])
         IN  /\ Len(Years[i].data.dates) >= 2
             /\ \E j \in 1..Len(ps) : ps[j].Y # int(k)

----------------------------------------------------------------------------
(* C3 *)

\* C3: a matched point that gives no calendar date is discarded alone:
\* extraction fails only on the structure of the document, and a fragment
\* with n matched points of which k are invalid gives a series of n - k.
C3_InvalidPointDiscardedAlone ==
    /\ pc = "error" => ~(document.hasScript /\ document.hasSeries)
    /\ Returned =>
         \A i \in 1..Len(Years) :
           LET k == Years[i].key
               string == document.groups[LastNamed(k)]
               n == Len(SelectSeq(string.elements, IsMatch))
               bad == n - Len(ValidPoints(int(k), string))
           IN  Len(Years[i].data.dates) = n - bad

----------------------------------------------------------------------------
(* C4 *)

\* C4: the keys of the mapping of a river are exactly the names of its
\* named fragments, each once; a fragment without a name gives no key, and
\* a named fragment without a data array gives a key with an empty series.
C4_KeysAreNamedFragments ==
    Returned =>
      /\ Keys(Years) = { document.groups[n].name :
                           n \in { m \in 1..Len(document.groups) :
                                     document.groups[m].name # None } }
      /\ None \notin Keys(Years)
      /\ Len(Years) = Cardinality(Keys(Years))
      /\ \A i \in 1..Len(Years) :
           LET string == document.groups[LastNamed(Years[i].key)]
           IN  ~string.hasData =>
                 Years[i].data = [dates |-> <<>>, counts |-> <<>>]

\* A fragment without a name that has a valid point, beside a named
\* fragment without a data array.
C4_Witness ==
    /\ Returned
    /\ \E n \in 1..Len(document.groups) :
         /\ document.groups[n].name = None
         /\ \E m \in 1..Len(document.groups[n].elements) :
              document.groups[n].elements[m].match
    /\ \E i \in 1..Len(Years) :
         /\ ~document.groups[LastNamed(Years[i].key)].hasData
         /\ Years[i].data.dates = <<>>

----------------------------------------------------------------------------
(* C5 *)

\* C5: every series that main has processed gave exactly one outcome: an
\* empty series one warning naming river and year and no file, any other
\* series its file and no warning; a series not yet processed gave neither.
C5_StoreOrWarnOnce ==
    \A r \in 1..Len(statistics) : \A i \in 1..Len(statistics[r]) :
      LET k == statistics[r][i].key
          data == statistics[r][i].data
          path == <<RIVERS[r], k>>
          nwarn == Count(warnings, <<RIVERS[r], k>>)
      IN  IF Processed(r, i)
          THEN IF Empty(data)
               THEN path \notin DOMAIN files /\ nwarn = 1
               ELSE /\ path \in DOMAIN files
                    /\ files[path] = <<data.dates, data.counts>>
                    /\ nwarn = 0
          ELSE path \notin DOMAIN files /\ nwarn = 0

\* A run that ended after a warning was followed by a store.
C5_Witness ==
    /\ pc = "done"
    /\ DOMAIN files # {}
    /\ \E a \in 1..Len(events) : \E b \in (a + 1)..Len(events) :
         events[a].op = "warn" /\ events[b].op = "store"

----------------------------------------------------------------------------
(* C6 *)

\* C6 as stated: no fetch of a later river precedes a write or warning of
\* an earlier river.
C6_NoFetchBeforeEarlierWrite ==
    \A a \in 1..Len(events) : \A b \in (a + 1)..Len(events) :
      ~ /\ events[a].op = "fetch"
        /\ IsWrite(events[b])
        /\ events[b].river < events[a].river

\* C6 amended: the rivers are fetched one by one in RIVERS order, every
\* fetch precedes every write or warning, the first write comes after the
\* fetch of the last river, and the writes follow RIVERS order.
C6_FetchAllThenWrite ==
    /\ \A a \in 1..Len(events) : \A b \in (a + 1)..Len(events) :
         /\ ~(IsWrite(events[a]) /\ events[b].op = "fetch")
         /\ events[a].river <= events[b].river \/
              (events[a].op = "fetch" /\ IsWrite(events[b]))
    /\ (\E a \in 1..Len(events) : IsWrite(events[a])) =>
         /\ Len(events) >= NRivers
         /\ \A r \in 1..NRivers : events[r] = Ev("fetch", r)

\* A run that ended with writes or warnings for two rivers.
C6_Witness ==
    /\ pc = "done"
    /\ \E a \in 1..Len(events) : \E b \in 1..Len(events) :
         /\ IsWrite(events[a]) /\ IsWrite(events[b])
         /\ events[a].river # events[b].river

----------------------------------------------------------------------------
(* C7 *)

\* C7: a document without the chart script or without a series match ends
\* get_salmon_statistics with an error at that river: no mapping is
\* recorded for the river and the loop does not go on.
C7_StructuralFailureIsFatal ==
    /\ pc = "search" => document.hasScript
    /\ pc \in {"groups", "main", "done"} =>
         document.hasScript /\ document.hasSeries
    /\ Len(statistics) >= river =>
         document.hasScript /\ document.hasSeries
    /\ (pc = "fetch" /\ river > 1) =>
         document.hasScript /\ document.hasSeries
    /\ error = "AttributeError" =>
         /\ pc = "error"
         /\ Len(statistics) = river - 1
         /\ ~(document.hasScript /\ document.hasSeries)

\* The script of the second or a later river has no series match.
C7_Witness ==
    /\ pc = "error"
    /\ error = "AttributeError"
    /\ river > 1
    /\ document.hasScript

----------------------------------------------------------------------------
(* C8 *)

\* C8 as stated: the file of a series is named by the decimal form of the
\* integer value of its year.
C8_FileNameUsesIntegerYear ==
    /\ \A p \in DOMAIN files : p[2] = str(int(p[2]))
    /\ \A i \in 1..Len(Years) :
         (Processed(river, i) /\ ~Empty(Years[i].data)) =>
            <<RIVERS[river], str(int(Years[i].key))>> \in DOMAIN files

\* C8 amended: the file of a series is named by the year string, the key
\* of the mapping, as it is; only the dates hold its integer value.
C8_FileNameUsesYearString ==
    /\ \A p \in DOMAIN files :
         \E i \in 1..Len(Years) :
            /\ p = <<RIVERS[river], Years[i].key>>
            /\ files[p] = <<Years[i].data.dates, Years[i].data.counts>>
    /\ \A i \in 1..Len(Years) :
         /\ (Processed(river, i) /\ ~Empty(Years[i].data)) =>
               <<RIVERS[river], Years[i].key>> \in DOMAIN files
         /\ \A j \in 1..Len(Years[i].data.dates) :
               Years[i].data.dates[j][1] = int(Years[i].key)

\* A file was written for a year string with a leading zero.
C8_Witness ==
    /\ pc = "done"
    /\ \E p \in DOMAIN files :
         /\ p[2] # str(int(p[2]))
         /\ Len(files[p][1]) > 0

----------------------------------------------------------------------------
(* C9 *)

\* C9: when the fetch or the structural parse of a river fails, no file
\* has been written and no warning printed; files and warnings exist only
\* once all rivers have been fetched and extracted.
C9_FailureLeavesNoOutput ==
    /\ error \in {"ConnectionError", "AttributeError"} =>
         /\ files = NoFiles
         /\ warnings = <<>>
         /\ \A a \in 1..Len(events) : ~IsWrite(events[a])
    /\ (files # NoFiles \/ warnings # <<>>) =>
         /\ Returned
         /\ Len(statistics) = NRivers

\* A failure at a later river, after a series with points was extracted
\* for the first river.
C9_Witness ==
    /\ pc = "error"
    /\ error \in {"ConnectionError", "AttributeError"}
    /\ river > 1
    /\ \E i \in 1..Len(statistics[1]) : ~Empty(statistics[1][i].data)

----------------------------------------------------------------------------
(* C10 *)

\* C10: the series of a year is the one parsed from the last fragment of
\* that name; keys are not repeated, and main gives one file or warning
\* for each key.
C10_LastFragmentWins ==
    /\ Returned =>
         /\ Len(Years) = Cardinality(Keys(Years))
         /\ \A i \in 1..Len(Years) :
              LET k == Years[i].key
              IN  Years[i].data =
                    Data(parse_data(document.groups[LastNamed(k)], k))
    /\ pc = "done" =>
         /\ Cardinality({ a \in 1..Len(events) :
                            IsWrite(events[a]) /\ events[a].river = river })
              = Cardinality(Keys(Years))
         /\ \A i \in 1..Len(Years) :
              LET path == <<RIVERS[river], Years[i].key>>
              IN  Count(warnings, path)
                    + (IF path \in DOMAIN files THEN 1 ELSE 0) = 1

\* Two fragments of one name of which the first has points that the
\* second does not have.
C10_Witness ==
    /\ pc = "done"
    /\ \E a \in 1..Len(document.groups) :
       \E b \in (a + 1)..Len(document.groups) :
         /\ document.groups[a].name # None
         /\ document.groups[a].name = document.groups[b].name
         /\ parse_data(document.groups[a], document.groups[a].name).dates
              # <<>>
         /\ parse_data(document.groups[a], document.groups[a].name).dates
              # parse_data(document.groups[b], document.groups[b].name).dates

====
